---------------------------- MODULE Spec2Model ----------------------------
(***************************************************************************)
(* Model of main_llama.py: the FastAPI webhook handlers of the AI calling  *)
(* agent and the process-wide session store conversation_sessions.         *)
(*                                                                         *)
(* Representation.                                                         *)
(*  - A text that is spoken or stored in a transcript (speech, reply,      *)
(*    utterance) is a sequence of chunks.  A chunk is either exactly one   *)
(*    whitespace character (a character for which str.isspace() holds),    *)
(*    or a non-empty piece of text that neither begins nor ends with a     *)
(*    whitespace character; a run of n whitespace characters is n chunks.  *)
(*    The empty string is <<>>, so Python truthiness of a string is        *)
(*    t # <<>>.                                                            *)
(*  - An optional value (a form field that may be absent, a content that   *)
(*    may be None) is a sequence of length 0 (None) or 1.                  *)
(*  - Identifiers and tags that are only compared (call sids, roles,       *)
(*    recording statuses, phone numbers, error texts) are strings.         *)
(*                                                                         *)
(* Scheduling.  Every handler is a coroutine on one event loop.  The two   *)
(* webhook handlers suspend at `await request.form()` before they read the *)
(* store; a request that has got that far is in `inflight`.  The rest of a *)
(* handler runs without yielding: generate_llama_response is awaited but   *)
(* contains no await itself (the Together and Twilio clients are called    *)
(* synchronously), so awaiting it does not return control to the loop.     *)
(* Each Handle action is therefore the whole remainder of the handler.     *)
(***************************************************************************)
EXTENDS Naturals, Sequences, FiniteSets, Bags, TLC

VARIABLES
    conversation_sessions,  \* the store: call sid -> [conversation_history]
    inflight,               \* bag of requests suspended at their first await
    last,                   \* the handler that completed last: its request,
                            \* response, the outbound service requests it
                            \* made, the store before it and the lifecycle
                            \* of the request's call sid before it
    lifecycle,              \* per call sid, what happened to it last since
                            \* the process started: nothing ("unseen"), the
                            \* voice handler ran for it ("active"), or a
                            \* "completed" recording event was handled for
                            \* it ("completed")
    turns                   \* per call sid, the speech turns the voice handler
                            \* has completed for it since it last became
                            \* "active": what the caller said in the request
                            \* and what the response says back

vars == <<conversation_sessions, inflight, last, lifecycle, turns>>

---------------------------------------------------------------------------
(* Bounds of the model *)

MaxTurns == 2       \* speech turns the transcripts of the store may hold
MaxInflight == 2    \* requests in flight at the same time

---------------------------------------------------------------------------
(* Inputs *)

CallSids == {"CA123", "CA456"}

SpeechFields == {<<>>, << <<>> >>, << <<"I need help">> >>}

StatusFields == {<<>>, <<"completed">>, <<"failed">>}

PhoneNumbers == {"", "+15550100"}

\* What together_client.chat.completions.create does: raise, or return a
\* response with a list of choices, each holding an optional content.
InferenceOutcomes ==
    { [raised |-> TRUE,  choices |-> <<>>],
      [raised |-> FALSE, choices |-> <<>>],
      [raised |-> FALSE, choices |-> << <<>> >>],
      [raised |-> FALSE,
       choices |-> << << <<"\n", "\n", "Sure,", " ", "I can help.",
                           " ", "\f">> >> >>] }

\* What client.calls.create does: raise e, or return a call with a sid.
ProviderOutcomes ==
    { [raised |-> TRUE,  sid |-> "", error |-> "Unable to create record"],
      [raised |-> FALSE, sid |-> "CA123", error |-> ""] }

---------------------------------------------------------------------------
(* Program constants *)

SYSTEM_MESSAGE == <<"<system_prompt_llama>">>

GREETING == <<"Hello! Thank you for calling. How can I assist you today?">>

REPROMPT == <<"I didn't catch that. Could you please repeat?">>

FALLBACK == <<"I apologize, but I'm having trouble processing your request right now. Please try again.">>

GOODBYE == <<"Thank you for calling. Have a great day!">>

---------------------------------------------------------------------------
(* Helpers *)

\* form_data.get(name, default)
FormGet(field, default) == IF field = <<>> THEN default ELSE field[1]

\* Mutant of Truthy: every speech value counts as speech.
TruthyAlways(s) == TRUE

\* bool(s) of a str
Truthy(s) == s # <<>>

\* The characters for which str.isspace() holds; str.strip() removes these
\* and no others.  The separators U+000B and U+001C..U+001F stand here as
\* the characters themselves; a character outside ASCII, which a string of
\* this module cannot hold, is written by its Python escape
\* (U+0085 and U+00A0 in both spellings).
WhitespaceCharacters ==
    { "\t", "\n", "", "\f", "\r", "", "", "", "", " ",
      "\\x85", "\\u0085", "\\xa0", "\\u00a0", "\\u1680", "\\u2000",
      "\\u2001", "\\u2002",
      "\\u2003", "\\u2004", "\\u2005", "\\u2006", "\\u2007", "\\u2008",
      "\\u2009", "\\u200a", "\\u2028", "\\u2029", "\\u202f", "\\u205f",
      "\\u3000" }

IsSpace(chunk) == chunk \in WhitespaceCharacters

RECURSIVE LStrip(_)
LStrip(t) ==
    IF t = <<>> THEN <<>>
    ELSE IF IsSpace(Head(t)) THEN LStrip(Tail(t)) ELSE t

RECURSIVE RStrip(_)
RStrip(t) ==
    IF t = <<>> THEN <<>>
    ELSE IF IsSpace(t[Len(t)]) THEN RStrip(SubSeq(t, 1, Len(t) - 1)) ELSE t

\* str.strip()
Strip(t) == RStrip(LStrip(t))

\* Mutant of Message: the role tag is lost, every message is a user message.
MessageAsUser(role, content) == [role |-> "user", content |-> content]

Message(role, content) == [role |-> role, content |-> content]

\* Mutant of NewSession: the transcript is not seeded with the prompt.
NewSessionUnseeded == [conversation_history |-> <<>>]

NewSession ==
    [conversation_history |-> << Message("system", SYSTEM_MESSAGE) >>]

\* Mutant of AppendHistory: the message is inserted at the front.
AppendHistoryFront(S, call_sid, msg) ==
    IF call_sid \in DOMAIN S
    THEN [raised   |-> FALSE,
          sessions |-> [S EXCEPT ![call_sid].conversation_history =
                                     <<msg>> \o @]]
    ELSE [raised |-> TRUE, sessions |-> S]

\* Mutant of AppendHistory: the message is appended twice.
AppendHistoryTwice(S, call_sid, msg) ==
    IF call_sid \in DOMAIN S
    THEN [raised   |-> FALSE,
          sessions |-> [S EXCEPT ![call_sid].conversation_history =
                                     @ \o <<msg, msg>>]]
    ELSE [raised |-> TRUE, sessions |-> S]

\* Mutant of AppendHistory: an assistant message is not recorded.
AppendHistoryDropsAssistant(S, call_sid, msg) ==
    IF call_sid \in DOMAIN S
    THEN [raised   |-> FALSE,
          sessions |-> IF msg.role = "assistant"
                       THEN S
                       ELSE [S EXCEPT ![call_sid].conversation_history =
                                          Append(@, msg)]]
    ELSE [raised |-> TRUE, sessions |-> S]

\* conversation_sessions[call_sid]["conversation_history"].append(msg):
\* the subscript raises KeyError when call_sid has no session.
AppendHistory(S, call_sid, msg) ==
    IF call_sid \in DOMAIN S
    THEN [raised   |-> FALSE,
          sessions |-> [S EXCEPT ![call_sid].conversation_history =
                                     Append(@, msg)]]
    ELSE [raised |-> TRUE, sessions |-> S]

\* Mutant of DeleteSession: the entry is kept.
DeleteSessionKeeps(S, call_sid) == S

\* Mutant of DeleteSession: the whole store is cleared.
DeleteSessionClearsAll(S, call_sid) == <<>>

\* del conversation_sessions[call_sid]
DeleteSession(S, call_sid) ==
    [c \in (DOMAIN S) \ {call_sid} |-> S[c]]

\* Mutant of IsCompleted: any status that is present counts as completed.
IsCompletedAnyStatus(recording_status) == recording_status # <<>>

\* recording_status == "completed"
IsCompleted(recording_status) == recording_status = <<"completed">>

\* Mutant of PhoneNumberMissing: only None counts as missing, "" does not.
PhoneNumberIsNone(to_phone_number) == FALSE

\* not request.to_phone_number
PhoneNumberMissing(to_phone_number) == to_phone_number = ""

\* What the framework answers when the handler lets an exception escape.
InternalServerError == [status_code |-> "500"]

\* Mutant of Twiml: the Gather says the goodbye, ai_response comes after it.
TwimlGoodbyeFirst(ai_response) ==
    [media_type |-> "application/xml",
     gather_say |-> GOODBYE,
     say        |-> ai_response]

\* The TwiML document: a Gather that says ai_response, then the goodbye.
Twiml(ai_response) ==
    [media_type |-> "application/xml",
     gather_say |-> ai_response,
     say        |-> GOODBYE]

---------------------------------------------------------------------------
(* Handler bodies, as functions of the store and the inputs.  Each returns *)
(* the store after the handler, its response and the outbound requests it  *)
(* issued (an inference request is recorded with the outcome it met).      *)

\* Mutant of generate_llama_response: a failure yields the error text, not
\* the fallback.
generate_llama_response_error_text(S, call_sid, out) ==
    IF call_sid \notin DOMAIN S
    THEN [text |-> <<"KeyError">>, calls |-> <<>>]
    ELSE LET request == [service  |-> "inference",
                         messages |-> S[call_sid].conversation_history,
                         outcome  |-> out]
         IN IF out.raised \/ out.choices = <<>> \/ out.choices[1] = <<>>
            THEN [text |-> <<"Error", " ", "generating", " ", "response">>,
                  calls |-> <<request>>]
            ELSE [text  |-> Strip(out.choices[1][1]),
                  calls |-> <<request>>]

\* Mutant of generate_llama_response: only the newest message of the
\* transcript is given to the inference request.
generate_llama_response_last_message(S, call_sid, out) ==
    IF call_sid \notin DOMAIN S
    THEN [text |-> FALLBACK, calls |-> <<>>]
    ELSE LET h == S[call_sid].conversation_history
             request == [service  |-> "inference",
                         messages |-> << h[Len(h)] >>,
                         outcome  |-> out]
         IN IF out.raised \/ out.choices = <<>> \/ out.choices[1] = <<>>
            THEN [text |-> FALLBACK, calls |-> <<request>>]
            ELSE [text  |-> Strip(out.choices[1][1]),
                  calls |-> <<request>>]

\* generate_llama_response: the reply text and the inference requests made.
generate_llama_response(S, call_sid, out) ==
    IF call_sid \notin DOMAIN S
    THEN [text |-> FALLBACK, calls |-> <<>>]       \* KeyError, caught
    ELSE LET request == [service  |-> "inference",
                         messages |-> S[call_sid].conversation_history,
                         outcome  |-> out]
         IN IF out.raised \/ out.choices = <<>> \/ out.choices[1] = <<>>
            THEN [text |-> FALLBACK, calls |-> <<request>>]
            ELSE [text  |-> Strip(out.choices[1][1]),
                  calls |-> <<request>>]

\* Mutant of VoiceBody: the session is created without the existence test.
VoiceBodyAlwaysCreates(S, r, out) ==
    [sessions |-> (r.CallSid :> NewSession) @@ S,
     resp     |-> Twiml(GREETING),
     calls    |-> <<>>]

\* handle_voice_interaction once the form data is there.
VoiceBody(S, r, out) ==
    LET call_sid      == r.CallSid
        speech_result == FormGet(r.SpeechResult, <<>>)
    IN IF call_sid \notin DOMAIN S
       THEN [sessions |-> (call_sid :> NewSession) @@ S,
             resp     |-> Twiml(GREETING),
             calls    |-> <<>>]
       ELSE IF Truthy(speech_result)
       THEN LET a1 == AppendHistory(S, call_sid,
                                    Message("user", speech_result))
            IN IF a1.raised
               THEN [sessions |-> a1.sessions,
                     resp     |-> InternalServerError,
                     calls    |-> <<>>]
               ELSE LET gen == generate_llama_response(a1.sessions,
                                                       call_sid, out)
                        a2  == AppendHistory(a1.sessions, call_sid,
                                             Message("assistant", gen.text))
                    IN IF a2.raised
                       THEN [sessions |-> a2.sessions,
                             resp     |-> InternalServerError,
                             calls    |-> gen.calls]
                       ELSE [sessions |-> a2.sessions,
                             resp     |-> Twiml(gen.text),
                             calls    |-> gen.calls]
       ELSE [sessions |-> S,
             resp     |-> Twiml(REPROMPT),
             calls    |-> <<>>]

\* Mutant of RecordingBody: the session is deleted without the membership
\* test, so a "completed" event for a call without session raises KeyError.
RecordingBodyUnguarded(S, r) ==
    LET call_sid == r.CallSid
    IN IF IsCompleted(r.RecordingStatus) /\ call_sid \notin DOMAIN S
       THEN [sessions |-> S, resp |-> InternalServerError, calls |-> <<>>]
       ELSE [sessions |-> IF IsCompleted(r.RecordingStatus)
                          THEN DeleteSession(S, call_sid)
                          ELSE S,
             resp     |-> [status |-> "received"],
             calls    |-> <<>>]

RecordingBody(S, r) ==
    LET call_sid == r.CallSid
    IN [sessions |-> IF IsCompleted(r.RecordingStatus)
                        /\ call_sid \in DOMAIN S
                     THEN DeleteSession(S, call_sid)
                     ELSE S,
        resp     |-> [status |-> "received"],
        calls    |-> <<>>]

\* Mutant of MakeCallBody: the provider's exception escapes the handler.
MakeCallBodyRaises(S, r, out) ==
    IF PhoneNumberMissing(r.to_phone_number)
    THEN [sessions |-> S,
          resp     |-> [error |-> "Phone number is required"],
          calls    |-> <<>>]
    ELSE LET request == [service |-> "telephony", to |-> r.to_phone_number,
                         outcome |-> out]
         IN IF out.raised
            THEN [sessions |-> S,
                  resp     |-> InternalServerError,
                  calls    |-> <<request>>]
            ELSE [sessions |-> S,
                  resp     |-> [call_sid |-> out.sid, status |-> "success"],
                  calls    |-> <<request>>]

MakeCallBody(S, r, out) ==
    IF PhoneNumberMissing(r.to_phone_number)
    THEN [sessions |-> S,
          resp     |-> [error |-> "Phone number is required"],
          calls    |-> <<>>]
    ELSE LET request == [service |-> "telephony", to |-> r.to_phone_number,
                         outcome |-> out]
         IN IF out.raised
            THEN [sessions |-> S,
                  resp     |-> [error |-> out.error, status |-> "failed"],
                  calls    |-> <<request>>]
            ELSE [sessions |-> S,
                  resp     |-> [call_sid |-> out.sid, status |-> "success"],
                  calls    |-> <<request>>]

\* Mutant of ClearSessions: the store is left as it is.
ClearSessionsSkipped(S) == S

\* cleanup_sessions: conversation_sessions.clear()
ClearSessions(S) == <<>>

---------------------------------------------------------------------------
(* Requests *)

VoiceRequest(c, sp) == [op |-> "voice", CallSid |-> c, SpeechResult |-> sp]

RecordingRequest(c, st) ==
    [op |-> "recording", CallSid |-> c, RecordingStatus |-> st]

MakeCallRequest(to) == [op |-> "make-call", to_phone_number |-> to]

\* Speech turns held by the transcripts of the store.
RECURSIVE TurnsIn(_, _)
TurnsIn(S, cs) ==
    IF cs = {} THEN 0
    ELSE LET c == CHOOSE c \in cs : TRUE
         IN (Len(S[c].conversation_history) - 1) \div 2 + TurnsIn(S, cs \ {c})

\* Speech turns that the requests in flight may still add.
RECURSIVE PendingTurns(_, _)
PendingTurns(B, rs) ==
    IF rs = {} THEN 0
    ELSE LET r == CHOOSE r \in rs : TRUE
         IN (IF r.op = "voice" /\ Truthy(FormGet(r.SpeechResult, <<>>))
             THEN CopiesIn(r, B) ELSE 0) + PendingTurns(B, rs \ {r})

\* The record of a completed handler.
Completed(r, b) ==
    [req    |-> r,
     resp   |-> b.resp,
     calls  |-> b.calls,
     before |-> [sessions |-> conversation_sessions,
                 phase    |-> IF r.op \in {"voice", "recording"}
                              THEN lifecycle[r.CallSid]
                              ELSE "unseen"]]

\* The turns of a call sid after a voice request r for it was answered
\* with resp, read off the request and the response alone: the first
\* request since the call sid became inactive starts with no turn, a later
\* request with speech adds one turn, a later one without speech adds none.
TurnsAfterVoice(ts, phase, r, resp) ==
    IF phase # "active" THEN <<>>
    ELSE IF FormGet(r.SpeechResult, <<>>) # <<>>
    THEN Append(ts, [speech |-> FormGet(r.SpeechResult, <<>>),
                     reply  |-> IF "gather_say" \in DOMAIN resp
                                THEN resp.gather_say ELSE <<>>])
    ELSE ts

---------------------------------------------------------------------------
(* Actions *)

Init ==
    /\ conversation_sessions = <<>>
    /\ inflight = EmptyBag
    /\ lifecycle = [c \in CallSids |-> "unseen"]
    /\ turns = [c \in CallSids |-> <<>>]
    /\ last = [req    |-> [op |-> "start"],
               resp   |-> [status |-> "none"],
               calls  |-> <<>>,
               before |-> [sessions |-> <<>>, phase |-> "unseen"]]

\* A voice webhook arrives and suspends at `await request.form()`.
ReceiveVoice ==
    \E c \in CallSids, sp \in SpeechFields :
        /\ BagCardinality(inflight) < MaxInflight
        /\ Truthy(FormGet(sp, <<>>)) =>
               TurnsIn(conversation_sessions, DOMAIN conversation_sessions)
                 + PendingTurns(inflight, BagToSet(inflight)) < MaxTurns
        /\ inflight' = inflight (+) SetToBag({VoiceRequest(c, sp)})
        /\ UNCHANGED <<conversation_sessions, last, lifecycle, turns>>

\* A recording-status webhook arrives and suspends at `await request.form()`.
ReceiveRecording ==
    \E c \in CallSids, st \in StatusFields :
        /\ BagCardinality(inflight) < MaxInflight
        /\ inflight' = inflight (+) SetToBag({RecordingRequest(c, st)})
        /\ UNCHANGED <<conversation_sessions, last, lifecycle, turns>>

\* handle_voice_interaction from the form data on, for the request r.
HandleVoiceOf(r) ==
    \E out \in InferenceOutcomes :
        /\ BagIn(r, inflight)
        /\ r.op = "voice"
        /\ LET b == VoiceBody(conversation_sessions, r, out)
           IN /\ conversation_sessions' = b.sessions
              /\ last' = Completed(r, b)
        /\ inflight' = inflight (-) SetToBag({r})
        /\ lifecycle' = [lifecycle EXCEPT ![r.CallSid] = "active"]
        /\ turns' = [turns EXCEPT ![r.CallSid] =
                       TurnsAfterVoice(@, lifecycle[r.CallSid], r, last'.resp)]

HandleVoice == \E r \in BagToSet(inflight) : HandleVoiceOf(r)

\* Mutant of HandleRecordingOf: the handler waits until the call sid has a
\* session before it goes on.
HandleRecordingOfWaits(r) ==
        /\ BagIn(r, inflight)
        /\ r.op = "recording"
        /\ r.CallSid \in DOMAIN conversation_sessions
        /\ LET b == RecordingBody(conversation_sessions, r)
           IN /\ conversation_sessions' = b.sessions
              /\ last' = Completed(r, b)
        /\ inflight' = inflight (-) SetToBag({r})
        /\ lifecycle' =
             IF r.RecordingStatus = <<"completed">>
             THEN [lifecycle EXCEPT ![r.CallSid] = "completed"]
             ELSE lifecycle
        /\ turns' =
             IF r.RecordingStatus = <<"completed">>
             THEN [turns EXCEPT ![r.CallSid] = <<>>]
             ELSE turns

\* handle_recording_status from the form data on, for the request r.
HandleRecordingOf(r) ==
        /\ BagIn(r, inflight)
        /\ r.op = "recording"
        /\ LET b == RecordingBody(conversation_sessions, r)
           IN /\ conversation_sessions' = b.sessions
              /\ last' = Completed(r, b)
        /\ inflight' = inflight (-) SetToBag({r})
        /\ lifecycle' =
             IF r.RecordingStatus = <<"completed">>
             THEN [lifecycle EXCEPT ![r.CallSid] = "completed"]
             ELSE lifecycle
        /\ turns' =
             IF r.RecordingStatus = <<"completed">>
             THEN [turns EXCEPT ![r.CallSid] = <<>>]
             ELSE turns

HandleRecording == \E r \in BagToSet(inflight) : HandleRecordingOf(r)

\* make_call: no await between the call of the handler and its return.
MakeCall ==
    \E to \in PhoneNumbers, out \in ProviderOutcomes :
        LET r == MakeCallRequest(to)
            b == MakeCallBody(conversation_sessions, r, out)
        IN /\ conversation_sessions' = b.sessions
           /\ last' = Completed(r, b)
           /\ UNCHANGED <<inflight, lifecycle, turns>>

\* cleanup_sessions: the shutdown event, raised once no request is in
\* flight; the process that starts next begins with the same empty store.
Shutdown ==
    /\ inflight = EmptyBag
    /\ conversation_sessions' = ClearSessions(conversation_sessions)
    /\ last' = Completed([op |-> "shutdown"],
                         [resp |-> [status |-> "none"], calls |-> <<>>])
    /\ lifecycle' = [c \in CallSids |-> "unseen"]
    /\ turns' = [c \in CallSids |-> <<>>]
    /\ UNCHANGED inflight

Next ==
    \/ ReceiveVoice
    \/ ReceiveRecording
    \/ HandleVoice
    \/ HandleRecording
    \/ MakeCall
    \/ Shutdown

Spec == Init /\ [][Next]_vars

VoiceRequests == {VoiceRequest(c, sp) : c \in CallSids, sp \in SpeechFields}

RecordingRequests ==
    {RecordingRequest(c, st) : c \in CallSids, st \in StatusFields}

\* The event loop runs every coroutine that is ready: a request whose form
\* data has arrived is eventually handled.
FairSpec ==
    /\ Spec
    /\ \A r \in VoiceRequests : WF_vars(HandleVoiceOf(r))
    /\ \A r \in RecordingRequests : WF_vars(HandleRecordingOf(r))

---------------------------------------------------------------------------
(* Vocabulary of the properties *)

Before == last.before.sessions

After == conversation_sessions

History(S, c) == S[c].conversation_history

IsPrefix(s, t) == Len(s) <= Len(t) /\ SubSeq(t, 1, Len(s)) = s

SystemOnly == << [role |-> "system", content |-> SYSTEM_MESSAGE] >>

SomeSpeech == << <<"I need help">> >>

\* The last handler was handle_voice_interaction.
LastVoice == last.req.op = "voice"

\* ... for a call sid that had no session / had a session.
LastVoiceNew == LastVoice /\ last.req.CallSid \notin DOMAIN Before

LastVoiceExisting == LastVoice /\ last.req.CallSid \in DOMAIN Before

\* The speech field of the last voice request is absent or empty.
LastNoSpeech ==
    last.req.SpeechResult = <<>> \/ last.req.SpeechResult = << <<>> >>

\* Every session other than c is as it was before the last handler.
OthersUnchanged(c) ==
    /\ DOMAIN After \ {c} = DOMAIN Before \ {c}
    /\ \A d \in DOMAIN After \ {c} : After[d] = Before[d]

\* reply is raw without its leading and trailing whitespace chunks.
IsStripOf(reply, raw) ==
    \E i \in 1..(Len(raw) + 1), j \in 0..Len(raw) :
        /\ reply = SubSeq(raw, i, j)
        /\ \A k \in 1..Len(raw) : (k < i \/ k > j) => IsSpace(raw[k])
        /\ reply # <<>> => ~IsSpace(reply[1]) /\ ~IsSpace(reply[Len(reply)])

\* The inference request met a failure: an exception, no choice, no content.
InferenceFailed(out) ==
    out.raised \/ Len(out.choices) = 0 \/ Len(out.choices[1]) = 0

---------------------------------------------------------------------------
(* C1: every session of the store has a transcript that begins with the   *)
(* system message (the prompt) and holds no other system message; and a   *)
(* session that exists before and after a handler has, after it, its      *)
(* earlier transcript as a prefix: a live transcript only grows at its    *)
(* end.                                                                   *)
C1_TranscriptAppendOnly ==
    \A c \in DOMAIN After :
        LET h == History(After, c)
        IN /\ Len(h) >= 1
           /\ h[1] = [role |-> "system", content |-> SYSTEM_MESSAGE]
           /\ \A i \in 2..Len(h) : h[i].role # "system"
           /\ c \in DOMAIN Before => IsPrefix(History(Before, c), h)

\* A second speech turn has just been appended to a three-message transcript.
C1_Witness ==
    /\ LastVoiceExisting
    /\ ~LastNoSpeech
    /\ last.req.CallSid \in DOMAIN After
    /\ Len(History(Before, last.req.CallSid)) = 3
    /\ Len(History(After, last.req.CallSid)) = 5

(* C2: a voice request for a call sid that has no session creates exactly *)
(* one session, whose transcript is [system(prompt)], answers with the    *)
(* greeting and makes no inference request, whatever its speech field.    *)
C2_FirstRequestGreets ==
    LastVoiceNew =>
        LET c == last.req.CallSid
        IN /\ DOMAIN After = DOMAIN Before \cup {c}
           /\ History(After, c) = SystemOnly
           /\ OthersUnchanged(c)
           /\ last.resp = Twiml(GREETING)
           /\ last.calls = <<>>

\* A first request that carries speech has been handled.
C2_Witness ==
    /\ LastVoiceNew
    /\ last.req.SpeechResult = SomeSpeech
    /\ last.resp.gather_say = GREETING

(* C3: a voice request with non-empty speech for a call sid whose session *)
(* exists leaves the transcript as it was, followed by user(speech) and   *)
(* then assistant(reply), where the reply is the fallback when inference  *)
(* failed and the stripped content of the first choice otherwise.         *)
C3_SpeechTurnAppendsTwo ==
    (LastVoiceExisting /\ ~LastNoSpeech) =>
        LET c == last.req.CallSid
            h == History(After, c)
            n == Len(History(Before, c))
            out == last.calls[1].outcome
        IN /\ c \in DOMAIN After
           /\ Len(last.calls) = 1
           /\ Len(h) = n + 2
           /\ SubSeq(h, 1, n) = History(Before, c)
           /\ h[n + 1] = [role |-> "user", content |-> last.req.SpeechResult[1]]
           /\ h[n + 2].role = "assistant"
           /\ IF InferenceFailed(out)
              THEN h[n + 2].content = FALLBACK
              ELSE IsStripOf(h[n + 2].content, out.choices[1][1])

\* A speech turn whose inference succeeded has been handled.
C3_Witness ==
    /\ LastVoiceExisting
    /\ ~LastNoSpeech
    /\ Len(last.calls) = 1
    /\ ~InferenceFailed(last.calls[1].outcome)
    /\ Len(History(After, last.req.CallSid)) = 3

(* C4: a voice request whose speech field is empty or absent, for a call  *)
(* sid whose session exists, leaves the store unchanged, makes no         *)
(* inference request and answers with the re-prompt in the normal         *)
(* response document.                                                     *)
C4_NoSpeechReprompts ==
    (LastVoiceExisting /\ LastNoSpeech) =>
        /\ After = Before
        /\ last.calls = <<>>
        /\ last.resp = Twiml(REPROMPT)

\* A request without a speech field has been handled on a session that
\* already holds a turn.
C4_Witness ==
    /\ LastVoiceExisting
    /\ last.req.SpeechResult = <<>>
    /\ Len(History(After, last.req.CallSid)) = 3
    /\ last.resp.gather_say = REPROMPT

(* C5: once a "completed" recording event for call sid c has been        *)
(* handled, c has no session; and the voice request handled next for c is *)
(* handled as a first request: c had no session, its new transcript is    *)
(* [system(prompt)] alone, the answer is the greeting and no inference    *)
(* request is made.                                                       *)
C5_CompletedThenFresh ==
    /\ (last.req.op = "recording" /\ last.req.RecordingStatus = <<"completed">>)
           => last.req.CallSid \notin DOMAIN After
    /\ (LastVoice /\ last.before.phase = "completed") =>
           LET c == last.req.CallSid
           IN /\ c \notin DOMAIN Before
              /\ c \in DOMAIN After
              /\ History(After, c) = SystemOnly
              /\ last.resp = Twiml(GREETING)
              /\ last.calls = <<>>

\* The voice request that follows a "completed" event has been handled,
\* and it carried speech.
C5_Witness ==
    /\ LastVoice
    /\ last.before.phase = "completed"
    /\ last.req.SpeechResult = SomeSpeech
    /\ last.resp.gather_say = GREETING

(* C6: a recording event whose status is not "completed" (an absent       *)
(* status included) leaves the store as it was: no session is created,    *)
(* removed or changed.                                                    *)
C6_OtherStatusNoChange ==
    (last.req.op = "recording" /\ last.req.RecordingStatus # <<"completed">>)
        => /\ DOMAIN After = DOMAIN Before
           /\ \A c \in DOMAIN After : After[c] = Before[c]

\* A "failed" recording event has been handled for a call that has a
\* session with a speech turn.
C6_Witness ==
    /\ last.req.op = "recording"
    /\ last.req.RecordingStatus = <<"failed">>
    /\ last.req.CallSid \in DOMAIN After
    /\ Len(History(After, last.req.CallSid)) = 3

(* C7: a call sid has a session exactly when the voice handler has run    *)
(* for it since its last "completed" recording event and the last         *)
(* shutdown; the voice handler removes no session; a session disappears   *)
(* only through a "completed" event for its own call sid or through       *)
(* shutdown; and shutdown leaves the store empty.                         *)
C7_SessionLifecycle ==
    /\ DOMAIN After = {c \in CallSids : lifecycle[c] = "active"}
    /\ LastVoice => DOMAIN Before \subseteq DOMAIN After
    /\ \A c \in DOMAIN Before \ DOMAIN After :
           \/ last.req.op = "shutdown"
           \/ /\ last.req.op = "recording"
              /\ last.req.RecordingStatus = <<"completed">>
              /\ last.req.CallSid = c
    /\ last.req.op = "shutdown" => DOMAIN After = {}

\* Shutdown has cleared a store that held two sessions.
C7_Witness ==
    /\ last.req.op = "shutdown"
    /\ Cardinality(DOMAIN Before) = 2
    /\ DOMAIN After = {}

(* C8: when the inference request of a speech turn fails, the handler     *)
(* still appends user(speech) and then assistant(fallback), answers with  *)
(* the fallback in the normal response document, and the session stays    *)
(* in the store.                                                          *)
C8_InferenceFailureFallback ==
    (/\ LastVoiceExisting
     /\ ~LastNoSpeech
     /\ Len(last.calls) = 1
     /\ InferenceFailed(last.calls[1].outcome)) =>
        LET c == last.req.CallSid
        IN /\ c \in DOMAIN After
           /\ History(After, c) =
                History(Before, c) \o
                  << [role |-> "user", content |-> last.req.SpeechResult[1]],
                     [role |-> "assistant", content |-> FALLBACK] >>
           /\ last.resp = Twiml(FALLBACK)

\* A speech turn whose inference request raised has been handled.
C8_Witness ==
    /\ LastVoiceExisting
    /\ ~LastNoSpeech
    /\ Len(last.calls) = 1
    /\ last.calls[1].outcome.raised
    /\ last.resp.gather_say = FALLBACK

(* Within a speech turn nothing runs between the user append and the     *)
(* assistant append, so neither append ever meets a missing session: no   *)
(* handler answers with the error of an escaped KeyError, and every       *)
(* inference request of a turn is followed by that turn's assistant       *)
(* message.                                                               *)
AppendAlwaysFindsSession ==
    /\ last.resp # InternalServerError
    /\ (LastVoice /\ Len(last.calls) = 1) =>
           /\ last.req.CallSid \in DOMAIN After
           /\ History(After, last.req.CallSid) =
                Append(last.calls[1].messages,
                       [role |-> "assistant",
                        content |-> last.resp.gather_say])

(* C10: make-call with an empty destination number answers exactly        *)
(* {"error": "Phone number is required"}, makes no request to the         *)
(* telephony provider and leaves the store unchanged.                     *)
C10_EmptyNumberRejected ==
    (last.req.op = "make-call" /\ last.req.to_phone_number = "") =>
        /\ last.resp = [error |-> "Phone number is required"]
        /\ last.calls = <<>>
        /\ DOMAIN After = DOMAIN Before
        /\ \A c \in DOMAIN After : After[c] = Before[c]

\* make-call with an empty number has been handled while a session exists.
C10_Witness ==
    /\ last.req.op = "make-call"
    /\ last.req.to_phone_number = ""
    /\ DOMAIN Before # {}
    /\ "error" \in DOMAIN last.resp

(* C11: make-call with a destination number makes one request to the    *)
(* telephony provider and lets no exception escape: when the provider     *)
(* raises, the answer is {error: <description>, status: "failed"}; when   *)
(* it returns a call, the answer is {call_sid: <the call's sid>, status:  *)
(* "success"}.  Either way the store is as it was.                        *)
C11_ProviderOutcomeReported ==
    (last.req.op = "make-call" /\ last.req.to_phone_number # "") =>
        /\ Len(last.calls) = 1
        /\ last.calls[1].service = "telephony"
        /\ last.calls[1].to = last.req.to_phone_number
        /\ LET out == last.calls[1].outcome
           IN IF out.raised
              THEN last.resp = [error |-> out.error, status |-> "failed"]
              ELSE last.resp = [call_sid |-> out.sid, status |-> "success"]
        /\ DOMAIN After = DOMAIN Before
        /\ \A c \in DOMAIN After : After[c] = Before[c]

\* The provider has refused a call while a session exists.
C11_Witness ==
    /\ last.req.op = "make-call"
    /\ last.req.to_phone_number # ""
    /\ Len(last.calls) = 1
    /\ last.calls[1].outcome.raised
    /\ DOMAIN Before # {}

(* C12: every answer of make-call carries a status field, and an answer   *)
(* that carries an error field has status "failed".  The answer to an     *)
(* empty destination number, {"error": "Phone number is required"},       *)
(* carries no status: the property is violated.                           *)
C12_EveryAnswerHasStatus ==
    last.req.op = "make-call" =>
        /\ "status" \in DOMAIN last.resp
        /\ "error" \in DOMAIN last.resp => last.resp.status = "failed"
        /\ \/ DOMAIN last.resp = {"call_sid", "status"}
              /\ last.resp.status = "success"
           \/ DOMAIN last.resp = {"error", "status"}
              /\ last.resp.status = "failed"

(* C13: handle_recording_status answers {status: "received"} to every    *)
(* event, whatever its status and whether or not its call sid has a       *)
(* session; an event for a call sid without session (never seen, or       *)
(* already removed by an earlier "completed" event) leaves the store as   *)
(* it was.                                                                *)
C13_RecordingAlwaysAcknowledged ==
    last.req.op = "recording" =>
        /\ last.resp = [status |-> "received"]
        /\ last.calls = <<>>
        /\ last.req.CallSid \notin DOMAIN Before =>
               /\ DOMAIN After = DOMAIN Before
               /\ \A c \in DOMAIN After : After[c] = Before[c]

\* A second "completed" event for the same call sid has been handled: the
\* first had already removed the session, and another session is in the store.
C13_Witness ==
    /\ last.req.op = "recording"
    /\ last.req.RecordingStatus = <<"completed">>
    /\ last.before.phase = "completed"
    /\ last.req.CallSid \notin DOMAIN Before
    /\ DOMAIN After # {}
    /\ last.resp = [status |-> "received"]

\* The messages that a sequence of speech turns puts into a transcript.
RECURSIVE TurnMessages(_)
TurnMessages(ts) ==
    IF ts = <<>> THEN <<>>
    ELSE << [role |-> "user", content |-> ts[1].speech],
            [role |-> "assistant", content |-> ts[1].reply] >>
         \o TurnMessages(Tail(ts))

(* C14: a voice or recording handler for call sid c leaves the existence  *)
(* and the transcript of every session d # c as they were, whatever else  *)
(* is in flight; and the transcript of every session d is the prompt      *)
(* followed by the messages of d's own speech turns, in their order.      *)
C14_DisjointSessions ==
    /\ last.req.op \in {"voice", "recording"} =>
           OthersUnchanged(last.req.CallSid)
    /\ \A d \in DOMAIN After :
           History(After, d) = SystemOnly \o TurnMessages(turns[d])

\* A "completed" event for one call has been handled while the other call
\* holds a session with a speech turn and has a voice request in flight.
C14_Witness ==
    /\ last.req.op = "recording"
    /\ last.req.RecordingStatus = <<"completed">>
    /\ last.req.CallSid \in DOMAIN Before
    /\ \E d \in DOMAIN After :
           /\ d # last.req.CallSid
           /\ Len(History(After, d)) = 3
           /\ \E r \in BagToSet(inflight) : r.op = "voice" /\ r.CallSid = d

\* Voice requests with speech for call sid c that are in flight.
SpeechRequestsInFlight(c) ==
    CopiesIn(VoiceRequest(c, SomeSpeech), inflight)

\* The roles of a transcript.
Roles(h) == [i \in 1..Len(h) |-> h[i].role]

\* The appends of two speech turns have interleaved.
Interleaved(h) ==
    \E i \in 1..(Len(h) - 1) :
        h[i].role = h[i + 1].role /\ h[i].role \in {"user", "assistant"}

(* C15, as amended: no lock serializes the voice requests of one call      *)
(* sid, yet their appends never interleave.  From the existence test to   *)
(* the assistant append the handler never yields, so speech turns that    *)
(* are in flight at the same time are handled one whole turn after the    *)
(* other: in every transcript each user message is followed at once by    *)
(* the assistant message of its own turn, and the transcript              *)
(* (system, user, user, assistant, assistant) is never reached.           *)
C15_TurnsNeverInterleave ==
    \A c \in DOMAIN After :
        /\ ~Interleaved(History(After, c))
        /\ Roles(History(After, c)) #
             <<"system", "user", "user", "assistant", "assistant">>
        /\ (LastVoice /\ last.req.CallSid = c /\ Len(last.calls) = 1) =>
               LET h == History(After, c)
               IN /\ Len(h) >= 3
                  /\ h[Len(h) - 1] = [role |-> "user",
                                      content |-> last.req.SpeechResult[1]]
                  /\ h[Len(h)].role = "assistant"

\* One of two speech turns that were in flight at the same time for an
\* existing session has been handled; the other is still in flight.
C15_Witness ==
    /\ LastVoiceExisting
    /\ ~LastNoSpeech
    /\ SpeechRequestsInFlight(last.req.CallSid) >= 1
    /\ Len(History(After, last.req.CallSid)) = 3

(* C15, as claimed: when two speech turns for one existing session are in *)
(* flight at the same time, their appends interleave into the transcript  *)
(* (system, user, user, assistant, assistant).  The claim says this can   *)
(* happen; C15_TurnsNeverInterleave shows that it never does, and under   *)
(* FairSpec TLC shows a run in which both turns are handled and the       *)
(* transcript is not interleaved.                                         *)
C15_AppendsInterleave ==
    LET c == "CA123"
    IN (/\ c \in DOMAIN After
        /\ History(After, c) = SystemOnly
        /\ SpeechRequestsInFlight(c) = 2)
       ~> (/\ c \in DOMAIN After
           /\ Roles(History(After, c)) =
                <<"system", "user", "user", "assistant", "assistant">>)

---------------------------------------------------------------------------
\* The webhooks that can be in flight.
Webhooks == VoiceRequests \cup RecordingRequests

\* The handler of a webhook, from the form data on.
HandleOf(r) ==
    IF r.op = "voice" THEN HandleVoiceOf(r) ELSE HandleRecordingOf(r)

\* The request r has left its handler with the response of its operation.
Answered(r) ==
    /\ last.req = r
    /\ r.op = "voice" =>
           /\ "gather_say" \in DOMAIN last.resp
           /\ last.resp = Twiml(last.resp.gather_say)
    /\ r.op = "recording" => last.resp = [status |-> "received"]

(* C16: no operation blocks: when every outbound request returns or       *)
(* raises (every outcome of InferenceOutcomes and ProviderOutcomes is one  *)
(* of the two), every webhook whose form data has arrived is eventually    *)
(* answered with the response of its operation, in every branch: new       *)
(* session, speech turn, empty speech, inference failure, any recording    *)
(* status.  Identical webhooks may be in flight together, so this is said  *)
(* in two parts: a copy of r leaves the requests in flight only one at a   *)
(* time and only by r being answered; and r is answered again and again    *)
(* unless from some time on no copy of r is in flight.  A copy that were   *)
(* never answered would stay in flight for ever and contradict the second  *)
(* part.  And make-call, which never suspends, can always run to its       *)
(* answer.                                                                 *)
C16_EveryRequestAnswered ==
    /\ \A r \in Webhooks :
           \/ <>[](~BagIn(r, inflight))
           \/ []<><<HandleOf(r) /\ Answered(r)'>>_vars
    /\ [][\A r \in Webhooks :
             CopiesIn(r, inflight') < CopiesIn(r, inflight) =>
                 /\ CopiesIn(r, inflight') = CopiesIn(r, inflight) - 1
                 /\ Answered(r)']_vars
    /\ [](ENABLED MakeCall)

\* A speech turn whose inference request raised has been answered while a
\* second copy of the same webhook and a recording webhook were in flight.
C16_Witness ==
    /\ LastVoiceExisting
    /\ Len(last.calls) = 1
    /\ last.calls[1].outcome.raised
    /\ Answered(last.req)
    /\ BagIn(last.req, inflight)
    /\ \E r \in RecordingRequests : BagIn(r, inflight)

---------------------------------------------------------------------------
(* C17: a speech turn on an existing session makes exactly one outbound   *)
(* request, an inference request, and makes it between its two appends:   *)
(* the message list of the request is the transcript as it was before the *)
(* turn followed by user(speech), so it begins with the system message    *)
(* and ends with the user message just appended, and the transcript after *)
(* the turn is that message list followed by one assistant message.  A    *)
(* voice request that creates the session or carries no speech makes no   *)
(* outbound request.                                                      *)
C17_InferenceBetweenAppends ==
    /\ (LastVoiceExisting /\ ~LastNoSpeech) =>
           LET c == last.req.CallSid
               m == last.calls[1].messages
           IN /\ Len(last.calls) = 1
              /\ last.calls[1].service = "inference"
              /\ m = Append(History(Before, c),
                            [role |-> "user",
                             content |-> last.req.SpeechResult[1]])
              /\ m[1] = [role |-> "system", content |-> SYSTEM_MESSAGE]
              /\ m[Len(m)].role = "user"
              /\ c \in DOMAIN After
              /\ Len(History(After, c)) = Len(m) + 1
              /\ SubSeq(History(After, c), 1, Len(m)) = m
              /\ History(After, c)[Len(m) + 1].role = "assistant"
    /\ (LastVoice /\ (LastVoiceNew \/ LastNoSpeech)) => last.calls = <<>>

\* The second speech turn of a session has given its inference request the
\* four messages system, user, assistant, user.
C17_Witness ==
    /\ LastVoiceExisting
    /\ ~LastNoSpeech
    /\ Len(last.calls) = 1
    /\ Roles(last.calls[1].messages) =
         <<"system", "user", "assistant", "user">>
    /\ Len(History(After, last.req.CallSid)) = 5

(* C18: in a speech turn on an existing session the text that the         *)
(* response says inside its Gather is the content of the assistant        *)
(* message that the turn appended: the stripped reply of the inference    *)
(* request, or the fallback when the request failed.                      *)
C18_SpokenIsRecorded ==
    (LastVoiceExisting /\ ~LastNoSpeech) =>
        LET c == last.req.CallSid
            h == History(After, c)
        IN /\ c \in DOMAIN After
           /\ Len(h) = Len(History(Before, c)) + 2
           /\ h[Len(h)].role = "assistant"
           /\ "gather_say" \in DOMAIN last.resp
           /\ last.resp.gather_say = h[Len(h)].content
           /\ last.resp.say = GOODBYE

\* A speech turn has spoken and recorded the stripped reply of an
\* inference request whose content came with surrounding whitespace.
C18_Witness ==
    /\ LastVoiceExisting
    /\ ~LastNoSpeech
    /\ Len(last.calls) = 1
    /\ ~InferenceFailed(last.calls[1].outcome)
    /\ last.resp.gather_say # last.calls[1].outcome.choices[1][1]
    /\ last.resp.gather_say = Strip(last.calls[1].outcome.choices[1][1])
    /\ LET h == History(After, last.req.CallSid)
       IN h[Len(h)].content = last.resp.gather_say

\* A voice request for call sid c is in flight.
VoiceInFlight(c) ==
    \E r \in BagToSet(inflight) : r.op = "voice" /\ r.CallSid = c

(* C19: when a session for c exists and no voice request for c is in      *)
(* flight, its transcript has 1 + 2k messages, k being the speech turns   *)
(* answered for c since the session was created; the first is the system  *)
(* message and after it the roles alternate user, assistant, so the       *)
(* transcript ends with an assistant message when k > 0.                  *)
C19_OddAlternatingTranscript ==
    \A c \in DOMAIN After :
        ~VoiceInFlight(c) =>
            LET h == History(After, c)
                k == Len(turns[c])
            IN /\ Len(h) = 1 + 2 * k
               /\ h[1].role = "system"
               /\ \A i \in 2..Len(h) :
                      h[i].role = IF i % 2 = 0 THEN "user" ELSE "assistant"
               /\ k > 0 => h[Len(h)].role = "assistant"

\* Two speech turns have been answered for a call sid that has no voice
\* request in flight, while the other call sid has one.
C19_Witness ==
    \E c \in DOMAIN After :
        /\ ~VoiceInFlight(c)
        /\ Len(turns[c]) = 2
        /\ Len(History(After, c)) = 5
        /\ \E d \in CallSids \ {c} : VoiceInFlight(d)

(* C20: the existence test and the creation of the session are one step.  *)
(* A voice request creates the session of its call sid exactly when no    *)
(* voice request for that call sid was answered since the call sid was    *)
(* last without session; so of two first requests in flight for an unseen *)
(* call sid the one handled first creates the session and is greeted,     *)
(* and the other finds the session: it is handled as a turn (re-prompt    *)
(* without speech, two more messages with speech), the transcript keeps   *)
(* what it held and its single system message.  The same holds for every  *)
(* voice request that is still in flight for a call sid with a session.   *)
C20_OneCreatorPerSession ==
    /\ LastVoice =>
           LET c == last.req.CallSid
           IN /\ c \in DOMAIN After
              /\ (c \in DOMAIN Before) <=> (last.before.phase = "active")
              /\ IF c \notin DOMAIN Before
                 THEN /\ History(After, c) = SystemOnly
                      /\ last.resp = Twiml(GREETING)
                 ELSE /\ IsPrefix(History(Before, c), History(After, c))
                      /\ \A i \in 2..Len(History(After, c)) :
                             History(After, c)[i].role # "system"
                      /\ IF LastNoSpeech
                         THEN /\ After = Before
                              /\ last.resp = Twiml(REPROMPT)
                         ELSE Len(History(After, c)) =
                                Len(History(Before, c)) + 2
    /\ \A r \in BagToSet(inflight) :
           (r.op = "voice" /\ r.CallSid \in DOMAIN After) =>
               \A out \in InferenceOutcomes :
                   LET b == VoiceBody(After, r, out)
                   IN /\ r.CallSid \in DOMAIN b.sessions
                      /\ IsPrefix(History(After, r.CallSid),
                                  History(b.sessions, r.CallSid))

\* Of two voice requests without speech for an unseen call sid, one has
\* created the session; the other has then been handled as a turn on it,
\* with the re-prompt and the transcript left at its system message.
C20_Witness ==
    /\ LastVoiceExisting
    /\ last.req.SpeechResult = <<>>
    /\ History(Before, last.req.CallSid) = SystemOnly
    /\ History(After, last.req.CallSid) = SystemOnly
    /\ last.resp = Twiml(REPROMPT)

=============================================================================
